---- MODULE Spec2Model ----
(***************************************************************************)
(* A model of generate_cards.py: the pipeline                              *)
(*   extract_text -> detect_sections -> generate_cards -> write_csv        *)
(* driven by main().  A Python str is a sequence of one-character strings  *)
(* (one element per code point), so that split, startswith, replace, the   *)
(* heading regex and the CSV quoting are computed character by character.  *)
(***************************************************************************)
EXTENDS Integers, Sequences, FiniteSets, TLC

VARIABLES
    pc,          \* where main() stands: "idle" between runs, then the next stage
    argv,        \* sys.argv of the current run (argv[1] is the script name)
    outDir,      \* whether the directory output/ exists
    outFile,     \* content of output/suggested_cards.csv (its bytes), or NoFile
    outBefore,   \* history: outFile as it was when the current run started
    paragraphs,  \* main's local: result of extract_text
    sectioned,   \* main's local: result of detect_sections
    cards,       \* main's local: result of generate_cards
    result,      \* how the current run ended: exit status or uncaught exception
    stdout,      \* what the current run printed
    trace        \* history: the calls main() has made in the current run, in order

vars == <<pc, argv, outDir, outFile, outBefore, paragraphs, sectioned,
          cards, result, stdout, trace>>

----------------------------------------------------------------------------
(* Bounds of the model.                                                    *)

\* paragraphs an extracted document holds (run-level specification)
MaxParas == 2
\* paragraphs handed to detect_sections (sectioner specification)
MaxSecParas == 3
\* length of the generated paragraphs (heading specification)
MaxParLen == 5
\* words of the generated sentences (card specification)
MaxWords == 11

----------------------------------------------------------------------------
(* Characters and the str methods the program uses.                        *)

\* str.isspace for the characters of the model (str.split(), str.strip(), \s)
IsSpace(c) == c \in {" ", "\t", "\n", "\r"}

\* \d for the characters of the model
IsDigit(c) == c \in {"0", "1", "2", "3", "4", "5", "6", "7", "8", "9"}

\* s == s.strip() and s != "": what extract_pdf / extract_docx keep
IsTrimmed(s) == /\ Len(s) > 0
                /\ ~IsSpace(s[1])
                /\ ~IsSpace(s[Len(s)])

RECURSIVE SplitAcc(_, _, _)
SplitAcc(s, cur, acc) ==
    IF s = <<>>
    THEN IF cur = <<>> THEN acc ELSE Append(acc, cur)
    ELSE IF IsSpace(Head(s))
         THEN SplitAcc(Tail(s), <<>>, IF cur = <<>> THEN acc ELSE Append(acc, cur))
         ELSE SplitAcc(Tail(s), Append(cur, Head(s)), acc)

\* str.split() with no argument: the maximal runs of non-whitespace
split(s) == SplitAcc(s, <<>>, <<>>)

RECURSIVE join(_, _)
\* sep.join(words)
join(sep, words) ==
    IF words = <<>> THEN <<>>
    ELSE IF Len(words) = 1 THEN words[1]
    ELSE words[1] \o sep \o join(sep, Tail(words))

RECURSIVE Concat(_)
\* "".join(parts), by halves
Concat(parts) ==
    IF parts = <<>> THEN <<>>
    ELSE IF Len(parts) = 1 THEN parts[1]
    ELSE LET h == Len(parts) \div 2
         IN  Concat(SubSeq(parts, 1, h)) \o Concat(SubSeq(parts, h + 1, Len(parts)))

\* s.startswith(prefix)
startswith(s, prefix) ==
    /\ Len(prefix) <= Len(s)
    /\ SubSeq(s, 1, Len(prefix)) = prefix

\* whether sub occurs in s at index i (1-based)
OccursAt(s, sub, i) ==
    /\ i >= 1
    /\ i + Len(sub) - 1 <= Len(s)
    /\ SubSeq(s, i, i + Len(sub) - 1) = sub

\* s.find(sub), 1-based; 0 when sub does not occur
find(s, sub) ==
    LET hits == {i \in 1..Len(s) : OccursAt(s, sub, i)}
    IN  IF hits = {} THEN 0
        ELSE CHOOSE i \in hits : \A j \in hits : i <= j

\* s.replace(old, new, 1) for a non-empty old
replace1(s, old, new) ==
    LET i == find(s, old)
    IN  IF i = 0 THEN s
        ELSE SubSeq(s, 1, i - 1) \o new \o SubSeq(s, i + Len(old), Len(s))

\* words[:n]
take(words, n) == SubSeq(words, 1, IF n < Len(words) THEN n ELSE Len(words))

\* the last word of maximal length, not the first
maxByLen_Last(words) ==
    LET i == CHOOSE k \in 1..Len(words) :
                 /\ \A j \in 1..Len(words) : Len(words[j]) <= Len(words[k])
                 /\ \A j \in (k + 1)..Len(words) : Len(words[j]) < Len(words[k])
    IN  words[i]

\* max(words, key=len) for a non-empty list: the first word of maximal length
maxByLen(words) ==
    LET i == CHOOSE k \in 1..Len(words) :
                 /\ \A j \in 1..Len(words) : Len(words[j]) <= Len(words[k])
                 /\ \A j \in 1..(k - 1) : Len(words[j]) < Len(words[k])
    IN  words[i]

----------------------------------------------------------------------------
(* The constants of the program.                                           *)

\* "General", the section before the first heading
GENERAL == <<"G", "e", "n", "e", "r", "a", "l">>

\* the tuple of prefixes is_definition hands to str.startswith
DEFINITION_STARTERS ==
    { <<"E", "s", " ", "d", "e", "n", "o", "m", "i", "n", "a">>,
      <<"É", "s">>,
      <<"E", "s", " ", "p", "r", "o", "d", "u", "e", "i", "x">>,
      <<"L", "a">>,
      <<"E", "l">>,
      <<"E", "l", "s">>,
      <<"L", "e", "s">> }

\* "Defineix: "
DEFINEIX == <<"D", "e", "f", "i", "n", "e", "i", "x", ":", " ">>
\* "..."
ELLIPSIS == <<".", ".", ".">>
\* "{{c1::" and "}}", the two halves of the f-string around key_word
CLOZE_OPEN == <<"{", "{", "c", "1", ":", ":">>
CLOZE_CLOSE == <<"}", "}">>
\* "basic", "cloze", "no"
BASIC == <<"b", "a", "s", "i", "c">>
CLOZE == <<"c", "l", "o", "z", "e">>
NO == <<"n", "o">>

\* Python's None, which is no str
None == <<"None">>

\* bool(x) for x a str or None
Truthy(x) == x # None /\ x # <<>>

----------------------------------------------------------------------------
(* SECTION_REGEX and detect_sections.  The pattern is, in order: the start *)
(* of the string; group 1, one or more digits followed by any number of    *)
(* (period, one or more digits); a period; any whitespace; group 3, one or *)
(* more characters other than the line feed.                               *)

\* s matches group 1's pattern as a whole
DottedNumber(s) ==
    /\ Len(s) > 0
    /\ \A i \in 1..Len(s) : IsDigit(s[i]) \/ s[i] = "."
    /\ IsDigit(s[1])
    /\ IsDigit(s[Len(s)])
    /\ \A i \in 1..(Len(s) - 1) : ~(s[i] = "." /\ s[i + 1] = ".")

\* the pattern after group 1 can match after p[1..e] with \s* taking k characters: the period,
\* k whitespace characters, then at least one character that "." accepts
\* (any but the line feed)
TailAt(p, e, k) ==
    /\ e + 2 + k <= Len(p)
    /\ p[e + 1] = "."
    /\ \A i \in (e + 2)..(e + 1 + k) : IsSpace(p[i])
    /\ p[e + 2 + k] # "\n"

\* the end of group 3 when it starts at i: (.+) is greedy and stops before the
\* first line feed
DotPlusEnd(p, i) ==
    LET stops == {j \in i..Len(p) : p[j] = "\n"}
    IN  IF stops = {} THEN Len(p)
        ELSE (CHOOSE j \in stops : \A h \in stops : j <= h) - 1

\* the heading regex with the period before the label left out
SECTION_REGEX_match_NoPeriod(p) ==
    LET ends == {e \in 1..Len(p) :
                    /\ DottedNumber(SubSeq(p, 1, e))
                    /\ \E k \in 0..Len(p) :
                          /\ e + 1 + k <= Len(p)
                          /\ \A i \in (e + 1)..(e + k) : IsSpace(p[i])
                          /\ p[e + 1 + k] # "\n"}
    IN  IF ends = {}
        THEN [matched |-> FALSE, group1 |-> <<>>, group3 |-> <<>>]
        ELSE LET e == CHOOSE x \in ends : \A y \in ends : y <= x
                 ks == {k \in 0..Len(p) :
                          /\ e + 1 + k <= Len(p)
                          /\ \A i \in (e + 1)..(e + k) : IsSpace(p[i])
                          /\ p[e + 1 + k] # "\n"}
                 k == CHOOSE x \in ks : \A y \in ks : y <= x
             IN  [matched |-> TRUE,
                  group1 |-> SubSeq(p, 1, e),
                  group3 |-> SubSeq(p, e + 1 + k, DotPlusEnd(p, e + 1 + k))]

\* SECTION_REGEX.match(p).  The quantifiers are greedy and give back one
\* character at a time: group 1 ends at the last position e from which the rest
\* of the pattern can still match, \s* takes the most whitespace that leaves
\* (.+) a character, and (.+) runs to the end of the line.
SECTION_REGEX_match(p) ==
    LET ends == {e \in 1..Len(p) :
                    /\ DottedNumber(SubSeq(p, 1, e))
                    /\ \E k \in 0..Len(p) : TailAt(p, e, k)}
    IN  IF ends = {}
        THEN [matched |-> FALSE, group1 |-> <<>>, group3 |-> <<>>]
        ELSE LET e == CHOOSE x \in ends : \A y \in ends : y <= x
                 ks == {k \in 0..Len(p) : TailAt(p, e, k)}
                 k == CHOOSE x \in ks : \A y \in ks : y <= x
             IN  [matched |-> TRUE,
                  group1 |-> SubSeq(p, 1, e),
                  group3 |-> SubSeq(p, e + 2 + k, DotPlusEnd(p, e + 2 + k))]

\* f"{match.group(1)} {match.group(3)}"
SectionLabel(m) == m.group1 \o <<" ">> \o m.group3

RECURSIVE SectionLoop(_, _, _)
\* the for loop of detect_sections
SectionLoop(ps, current_section, res) ==
    IF ps = <<>> THEN res
    ELSE LET p == Head(ps)
             match == SECTION_REGEX_match(p)
         IN  IF match.matched
             THEN SectionLoop(Tail(ps), SectionLabel(match), res)
             ELSE SectionLoop(Tail(ps), current_section,
                              Append(res, <<current_section, p>>))

RECURSIVE SectionLoop_NoContinue(_, _, _)
\* the loop without its "continue": a heading is emitted as a sentence too
SectionLoop_NoContinue(ps, current_section, res) ==
    IF ps = <<>> THEN res
    ELSE LET p == Head(ps)
             match == SECTION_REGEX_match(p)
             sec == IF match.matched THEN SectionLabel(match) ELSE current_section
         IN  SectionLoop_NoContinue(Tail(ps), sec, Append(res, <<sec, p>>))

detect_sections_NoContinue(ps) == SectionLoop_NoContinue(ps, GENERAL, <<>>)

detect_sections(ps) == SectionLoop(ps, GENERAL, <<>>)

----------------------------------------------------------------------------
(* The card generator.                                                     *)

\* is_definition with ">= 8" for "> 8"
is_definition_OffByOne(sentence) ==
    /\ \E st \in DEFINITION_STARTERS : startswith(sentence, st)
    /\ Len(split(sentence)) >= 8

is_definition(sentence) ==
    /\ \E st \in DEFINITION_STARTERS : startswith(sentence, st)
    /\ Len(split(sentence)) > 8

generate_basic_card(sentence) ==
    LET words == split(sentence)
        key == join(<<" ">>, take(words, 5)) \o ELLIPSIS
    IN  [front |-> DEFINEIX \o key, back |-> sentence]

\* generate_cloze with "len(words) < 9" for "len(words) < 10"
generate_cloze_Nine(sentence) ==
    LET words == split(sentence)
    IN  IF Len(words) < 9 THEN None
        ELSE LET key_word == maxByLen(words)
             IN  IF Len(key_word) < 6 THEN None
                 ELSE replace1(sentence, key_word,
                               CLOZE_OPEN \o key_word \o CLOZE_CLOSE)

\* generate_cloze with min for max: the key is the first shortest word among
\* those of length 6 or more
generate_cloze_Min(sentence) ==
    LET words == split(sentence)
        long == SelectSeq(words, LAMBDA w : Len(w) >= 6)
    IN  IF Len(words) < 10 \/ long = <<>> THEN None
        ELSE LET i == CHOOSE k \in 1..Len(long) :
                          /\ \A j \in 1..Len(long) : Len(long[k]) <= Len(long[j])
                          /\ \A j \in 1..(k - 1) : Len(long[k]) < Len(long[j])
                 key_word == long[i]
             IN  replace1(sentence, key_word,
                          CLOZE_OPEN \o key_word \o CLOZE_CLOSE)

generate_cloze(sentence) ==
    LET words == split(sentence)
    IN  IF Len(words) < 10 THEN None
        ELSE LET key_word == maxByLen(words)
             IN  IF Len(key_word) < 6 THEN None
                 ELSE replace1(sentence, key_word,
                               CLOZE_OPEN \o key_word \o CLOZE_CLOSE)

\* the cards one (section, sentence) pair adds: the body of generate_cards' loop
CardsOf(section, sentence) ==
    LET bc == generate_basic_card(sentence)
        basic == IF is_definition(sentence)
                 THEN << [type |-> BASIC, front |-> bc.front, back |-> bc.back,
                          section |-> section, approved |-> NO] >>
                 ELSE <<>>
        cloze == generate_cloze(sentence)
        clozeCard == IF Truthy(cloze)
                     THEN << [type |-> CLOZE, front |-> cloze, back |-> <<>>,
                              section |-> section, approved |-> NO] >>
                     ELSE <<>>
    IN  basic \o clozeCard

RECURSIVE generate_cards(_)
generate_cards(sectioned_text) ==
    IF sectioned_text = <<>> THEN <<>>
    ELSE CardsOf(Head(sectioned_text)[1], Head(sectioned_text)[2])
            \o generate_cards(Tail(sectioned_text))

----------------------------------------------------------------------------
(* The writer: csv.DictWriter with the default ("excel") dialect on a file *)
(* opened with mode "w", newline="" and encoding="utf-8".                  *)

\* fieldnames=["type", "front", "back", "section", "approved"]
FIELDNAMES ==
    << <<"t", "y", "p", "e">>,
       <<"f", "r", "o", "n", "t">>,
       <<"b", "a", "c", "k">>,
       <<"s", "e", "c", "t", "i", "o", "n">>,
       <<"a", "p", "p", "r", "o", "v", "e", "d">> >>

\* the values of a card in fieldnames order
CardRow(card) ==
    <<card.type, card.front, card.back, card.section, card.approved>>

\* QUOTE_MINIMAL: a field is quoted when it holds the delimiter, the quote
\* character or a character of the line terminator
NeedsQuote(field) ==
    \E i \in 1..Len(field) : field[i] \in {",", "\"", "\r", "\n"}

\* doublequote=True: each quote character inside a field is written twice
DoubleQuotes(field) ==
    Concat([i \in 1..Len(field) |->
               IF field[i] = "\"" THEN <<"\"", "\"">> ELSE <<field[i]>>])

CsvField(field) ==
    IF NeedsQuote(field)
    THEN <<"\"">> \o DoubleQuotes(field) \o <<"\"">>
    ELSE field

\* writer.writerow: the fields joined by "," and ended by "\r\n"
CsvLine(fields) ==
    join(<<",">>, [i \in 1..Len(fields) |-> CsvField(fields[i])]) \o <<"\r", "\n">>

RECURSIVE CsvLines(_)
\* writer.writerows(cards)
CsvLines(cs) ==
    IF cs = <<>> THEN <<>>
    ELSE CsvLine(CardRow(Head(cs))) \o CsvLines(Tail(cs))

\* the text write_csv writes: writeheader() then writerows(cards)
CsvText(cs) == CsvLine(FIELDNAMES) \o CsvLines(cs)

\* encoding="utf-8": an ASCII character is one byte (written as the character),
\* each other character of the model is the two bytes shown
Utf8(c) ==
    CASE c = "É" -> <<"C3", "89">>
      [] c = "à" -> <<"C3", "A0">>
      [] c = "è" -> <<"C3", "A8">>
      [] c = "í" -> <<"C3", "AD">>
      [] c = "ï" -> <<"C3", "AF">>
      [] c = "ó" -> <<"C3", "B3">>
      [] OTHER -> <<c>>

\* text.encode("utf-8")
Utf8Encode(text) == Concat([i \in 1..Len(text) |-> Utf8(text[i])])

\* no file at the output path
NoFile == <<"NoFile">>

\* the lengths a failed write may leave behind: nothing, the complete lines
\* written so far, or all but the last byte
PartialLengths(cs) ==
    {0, Len(Utf8Encode(CsvText(cs))) - 1}
        \cup {Len(Utf8Encode(CsvText(SubSeq(cs, 1, n)))) : n \in 0..(Len(cs) - 1)}

\* open(OUTPUT_FILE, "a"): the new text follows what the file held
FileAfterWrite_Append(old, cs) ==
    (IF old = NoFile THEN <<>> ELSE old) \o Utf8Encode(CsvText(cs))

\* the file after a write_csv that succeeds: mode "w" truncates what it held
FileAfterWrite(old, cs) == Utf8Encode(CsvText(cs))

----------------------------------------------------------------------------
(* Reading the file back: open(newline="", encoding="utf-8") and           *)
(* csv.reader with the default dialect.                                    *)

\* the character two bytes of the model decode to, <<>> when they are none
Utf8Char(b1, b2) ==
    LET cs == {c \in {"É", "à", "è", "í", "ï", "ó"} : Utf8(c) = <<b1, b2>>}
    IN  IF cs = {} THEN <<>> ELSE <<CHOOSE c \in cs : TRUE>>

IsContinuation(b) == b \in {"89", "A0", "A8", "AD", "AF", "B3"}

\* the bytes are well-formed UTF-8: each lead byte has its continuation byte
\* and each continuation byte its lead
Utf8Valid(bytes) ==
    \A i \in 1..Len(bytes) :
        /\ bytes[i] = "C3" => i < Len(bytes) /\ IsContinuation(bytes[i + 1])
        /\ IsContinuation(bytes[i]) => i > 1 /\ bytes[i - 1] = "C3"

\* bytes.decode("utf-8") of well-formed bytes
Utf8Decode(bytes) ==
    Concat([i \in 1..Len(bytes) |->
               IF bytes[i] = "C3" THEN Utf8Char(bytes[i], bytes[i + 1])
               ELSE IF IsContinuation(bytes[i]) THEN <<>>
               ELSE <<bytes[i]>>])

\* the number of quote characters in text[a..b]
Quotes(text, a, b) == Cardinality({j \in a..b : text[j] = "\""})

\* where an unquoted run starting at i ends: the index of the next delimiter
\* or line end, Len(text) + 1 when there is none
UnquotedEnd(text, i) ==
    LET stops == {j \in i..Len(text) : text[j] \in {",", "\r", "\n"}}
    IN  IF stops = {} THEN Len(text) + 1
        ELSE CHOOSE j \in stops : \A h \in stops : j <= h

\* the content of a quoted field with each doubled quote read as one
Unescape(content) ==
    Concat([i \in 1..Len(content) |->
               IF content[i] = "\"" /\ Quotes(content, 1, i - 1) % 2 = 1
               THEN <<>> ELSE <<content[i]>>])

\* the field that starts at index i: its value and the index of the delimiter
\* or line end that follows it
ParseField(text, i) ==
    IF i <= Len(text) /\ text[i] = "\""
    THEN LET closers == {j \in (i + 1)..Len(text) :
                            /\ text[j] = "\""
                            /\ Quotes(text, i + 1, j - 1) % 2 = 0
                            /\ (j = Len(text) \/ text[j + 1] # "\"")}
         IN  IF closers = {}
             THEN [value |-> Unescape(SubSeq(text, i + 1, Len(text))),
                   end |-> Len(text) + 1]
             ELSE LET j == CHOOSE x \in closers : \A y \in closers : x <= y
                      e == UnquotedEnd(text, j + 1)
                  IN  [value |-> Unescape(SubSeq(text, i + 1, j - 1))
                                    \o SubSeq(text, j + 1, e - 1),
                       end |-> e]
    ELSE LET e == UnquotedEnd(text, i)
         IN  [value |-> SubSeq(text, i, e - 1), end |-> e]

\* the index after the line end at index e ("\r\n" is one line end)
AfterEol(text, e) ==
    IF text[e] = "\r" /\ e < Len(text) /\ text[e + 1] = "\n" THEN e + 2 ELSE e + 1

RECURSIVE ParseFields(_, _)
\* the fields of the record whose next field starts at i, and where the next
\* record starts
ParseFields(text, i) ==
    LET f == ParseField(text, i)
    IN  IF f.end > Len(text)
        THEN [fields |-> <<f.value>>, next |-> Len(text) + 1]
        ELSE IF text[f.end] = ","
        THEN LET rest == ParseFields(text, f.end + 1)
             IN  [fields |-> <<f.value>> \o rest.fields, next |-> rest.next]
        ELSE [fields |-> <<f.value>>, next |-> AfterEol(text, f.end)]

RECURSIVE ParseRecords(_, _)
\* the records from index i on; an empty line is a record of no field
ParseRecords(text, i) ==
    IF i > Len(text) THEN <<>>
    ELSE IF text[i] \in {"\r", "\n"}
    THEN <<<<>>>> \o ParseRecords(text, AfterEol(text, i))
    ELSE LET r == ParseFields(text, i)
         IN  <<r.fields>> \o ParseRecords(text, r.next)

\* list(csv.reader(f)) on the text of the file
ReadCsv(text) == ParseRecords(text, 1)

----------------------------------------------------------------------------
(* The command line and the input files.                                   *)

UPPER == <<"A", "B", "C", "D", "E", "F", "G", "H", "I", "J", "K", "L", "M",
           "N", "O", "P", "Q", "R", "S", "T", "U", "V", "W", "X", "Y", "Z">>
LOWER == <<"a", "b", "c", "d", "e", "f", "g", "h", "i", "j", "k", "l", "m",
           "n", "o", "p", "q", "r", "s", "t", "u", "v", "w", "x", "y", "z">>

\* str.lower() on the characters of a path
lower(s) ==
    [i \in 1..Len(s) |->
        IF \E k \in 1..26 : UPPER[k] = s[i]
        THEN LOWER[CHOOSE k \in 1..26 : UPPER[k] = s[i]]
        ELSE s[i]]

\* Path.suffix of a path of one component: from the last period on, when that
\* period is neither the first nor the last character
suffix(path) ==
    LET dots == {i \in 1..Len(path) : path[i] = "."}
    IN  IF dots = {} THEN <<>>
        ELSE LET i == CHOOSE x \in dots : \A y \in dots : y <= x
             IN  IF 1 < i /\ i < Len(path) THEN SubSeq(path, i, Len(path))
                 ELSE <<>>

SCRIPT == <<"g", "e", "n", "e", "r", "a", "t", "e", "_", "c", "a", "r", "d", "s",
            ".", "p", "y">>

\* input paths that exist: a.pdf, b.DOCX, c.txt and the hidden file .pdf
ExistingPaths ==
    { <<"a", ".", "p", "d", "f">>,
      <<"b", ".", "D", "O", "C", "X">>,
      <<"c", ".", "t", "x", "t">>,
      <<".", "p", "d", "f">> }

\* input paths that do not exist: m.pdf, m.txt
MissingPaths ==
    { <<"m", ".", "p", "d", "f">>,
      <<"m", ".", "t", "x", "t">> }

\* the command lines of the model: no argument, one, two
Argvs ==
    {<<SCRIPT>>, <<SCRIPT, <<"a", ".", "p", "d", "f">>, <<"e", "x", "t", "r", "a">>>>}
        \cup {<<SCRIPT, p>> : p \in ExistingPaths \cup MissingPaths}

\* a path.exists() that always answers yes
path_exists_Always(path) == TRUE

\* path.exists()
path_exists(path) == path \in ExistingPaths

\* extract_text without its final raise: any other suffix is read as DOCX
extract_kind_NoRaise(path) ==
    IF lower(suffix(path)) = <<".", "p", "d", "f">> THEN "pdf" ELSE "docx"

\* the branch extract_text takes
extract_kind(path) ==
    IF lower(suffix(path)) = <<".", "p", "d", "f">> THEN "pdf"
    ELSE IF lower(suffix(path)) = <<".", "d", "o", "c", "x">> THEN "docx"
    ELSE "unsupported"

\* the paragraphs of the model's documents
\* "3.1. Enzims"
ENZIMS == <<"3", ".", "1", ".", " ", "E", "n", "z", "i", "m", "s">>
\* "3.5 kg de mostra"
MOSTRA ==
    <<"3", ".", "5", " ", "k", "g", " ", "d", "e", " ", "m", "o", "s", "t",
      "r", "a">>
\* "2. Lípids"
LIPIDS == <<"2", ".", " ", "L", "í", "p", "i", "d", "s">>
\* "Text breu."
BREU == <<"T", "e", "x", "t", " ", "b", "r", "e", "u", ".">>
\* "k"
KAY == <<"k">>
\* "És l'orgànul, dit "central", que fa la síntesi de les proteïnes."
ORGANUL ==
    <<"É", "s", " ", "l", "'", "o", "r", "g", "à", "n", "u", "l", ",", " ",
      "d", "i", "t", " ", "\"", "c", "e", "n", "t", "r", "a", "l", "\"",
      ",", " ", "q", "u", "e", " ", "f", "a", " ", "l", "a", " ", "s", "í",
      "n", "t", "e", "s", "i", " ", "d", "e", " ", "l", "e", "s", " ", "p",
      "r", "o", "t", "e", "ï", "n", "e", "s", ".">>
\* "Els ribosomes sintetitzen proteïnes a partir d'informació genètica
\* emmagatzemada."
RIBOSOMES ==
    <<"E", "l", "s", " ", "r", "i", "b", "o", "s", "o", "m", "e", "s", " ",
      "s", "i", "n", "t", "e", "t", "i", "t", "z", "e", "n", " ", "p", "r",
      "o", "t", "e", "ï", "n", "e", "s", " ", "a", " ", "p", "a", "r", "t",
      "i", "r", " ", "d", "'", "i", "n", "f", "o", "r", "m", "a", "c", "i",
      "ó", " ", "g", "e", "n", "è", "t", "i", "c", "a", " ", "e", "m", "m",
      "a", "g", "a", "t", "z", "e", "m", "a", "d", "a", ".">>

\* paragraphs the input documents of the run-level model hold
CORPUS == {ENZIMS, ORGANUL, RIBOSOMES, BREU}

\* sequences of at most n elements of S
SeqsUpTo(S, n) == UNION {[1..k -> S] : k \in 0..n}

\* what extract_pdf / extract_docx may return for a readable document: its
\* trimmed, non-empty paragraphs in document order
Documents == SeqsUpTo(CORPUS, MaxParas)

----------------------------------------------------------------------------
(* main(), one action per stage.  A run starts from "idle" (the process is *)
(* launched) and returns to "idle" when the process ends; only the output  *)
(* directory and the output file outlive it.                               *)

\* importing the module creates output/suggested_cards.csv as an empty file
OutputAtImport_Touch(file) == IF file = NoFile THEN <<>> ELSE file

\* what the module-level statements do to the output file: OUTPUT_DIR.mkdir
\* creates the directory only, OUTPUT_FILE is just a path
OutputAtImport(file) == file

Init ==
    /\ pc = "idle"
    /\ argv = <<>>
    /\ outDir = FALSE
    /\ outFile = NoFile
    /\ outBefore = NoFile
    /\ paragraphs = <<>>
    /\ sectioned = <<>>
    /\ cards = <<>>
    /\ result = "none"
    /\ stdout = <<>>
    /\ trace = <<>>

\* the process starts: the module is imported and main() is entered
StartRun ==
    /\ pc = "idle"
    /\ \E a \in Argvs : argv' = a
    /\ outDir' = TRUE
    /\ outFile' = OutputAtImport(outFile)
    /\ outBefore' = outFile
    /\ paragraphs' = <<>>
    /\ sectioned' = <<>>
    /\ cards' = <<>>
    /\ result' = "running"
    /\ stdout' = <<>>
    /\ trace' = <<>>
    /\ pc' = "argc"

\* if len(sys.argv) != 2: print usage; sys.exit(1)
CheckArgs ==
    /\ pc = "argc"
    /\ IF Len(argv) # 2
       THEN /\ stdout' = <<"usage">>
            /\ result' = "exit 1"
            /\ pc' = "idle"
       ELSE /\ pc' = "exists"
            /\ UNCHANGED <<stdout, result>>
    /\ UNCHANGED <<argv, outDir, outFile, outBefore, paragraphs, sectioned,
                   cards, trace>>

\* if not path.exists(): raise FileNotFoundError(path)
CheckExists ==
    /\ pc = "exists"
    /\ trace' = Append(trace, "path.exists")
    /\ IF ~path_exists(argv[2])
       THEN /\ result' = "FileNotFoundError"
            /\ pc' = "idle"
       ELSE /\ pc' = "extract"
            /\ UNCHANGED result
    /\ UNCHANGED <<argv, outDir, outFile, outBefore, paragraphs, sectioned,
                   cards, stdout>>

\* paragraphs = extract_text(path): the suffix picks the extractor, which
\* returns the document's paragraphs or fails in the library; any other
\* suffix raises ValueError
ExtractText ==
    /\ pc = "extract"
    /\ LET kind == extract_kind(argv[2])
       IN  \/ /\ kind = "unsupported"
              /\ trace' = Append(trace, "extract_text")
              /\ result' = "ValueError"
              /\ pc' = "idle"
              /\ UNCHANGED paragraphs
           \/ /\ kind # "unsupported"
              /\ trace' = trace \o <<"extract_text", "extract_" \o kind>>
              /\ \E doc \in Documents : paragraphs' = doc
              /\ pc' = "sections"
              /\ UNCHANGED result
           \/ /\ kind # "unsupported"
              /\ trace' = trace \o <<"extract_text", "extract_" \o kind>>
              /\ result' = "ExtractionError"
              /\ pc' = "idle"
              /\ UNCHANGED paragraphs
    /\ UNCHANGED <<argv, outDir, outFile, outBefore, sectioned, cards, stdout>>

\* sectioned = detect_sections(paragraphs)
DetectSections ==
    /\ pc = "sections"
    /\ trace' = Append(trace, "detect_sections")
    /\ sectioned' = detect_sections(paragraphs)
    /\ pc' = "cards"
    /\ UNCHANGED <<argv, outDir, outFile, outBefore, paragraphs, cards, result,
                   stdout>>

\* cards = generate_cards(sectioned)
GenerateCards ==
    /\ pc = "cards"
    /\ trace' = Append(trace, "generate_cards")
    /\ cards' = generate_cards(sectioned)
    /\ pc' = "write"
    /\ UNCHANGED <<argv, outDir, outFile, outBefore, paragraphs, sectioned,
                   result, stdout>>

\* write_csv(cards), then the confirmation line.  The write succeeds, or open()
\* fails and the file is untouched, or a write fails after open() truncated
\* the file and part of the text is left.
WriteCsv ==
    /\ pc = "write"
    /\ trace' = Append(trace, "write_csv")
    /\ \/ /\ outFile' = FileAfterWrite(outFile, cards)
          /\ stdout' = <<"created", Len(cards)>>
          /\ result' = "exit 0"
       \/ /\ outFile' = outFile
          /\ result' = "OSError"
          /\ UNCHANGED stdout
       \/ /\ \E n \in PartialLengths(cards) :
                outFile' = SubSeq(FileAfterWrite(outFile, cards), 1, n)
          /\ result' = "OSError"
          /\ UNCHANGED stdout
    /\ pc' = "idle"
    /\ UNCHANGED <<argv, outDir, outBefore, paragraphs, sectioned, cards>>

Next ==
    \/ StartRun
    \/ CheckArgs
    \/ CheckExists
    \/ ExtractText
    \/ DetectSections
    \/ GenerateCards
    \/ WriteCsv

Spec == Init /\ [][Next]_vars

----------------------------------------------------------------------------
(* The sectioner on its own: main() stands before detect_sections with any *)
(* paragraph list of the sets below (a DOCX paragraph may hold line feeds).*)

\* the characters the generated paragraphs are made of
ParAlphabet == {"3", ".", " ", "\n", "k"}

\* every trimmed, non-empty paragraph of at most MaxParLen characters, and the
\* two paragraphs the specification names
GenParagraphs ==
    {s \in SeqsUpTo(ParAlphabet, MaxParLen) : IsTrimmed(s)} \cup {ENZIMS, MOSTRA}

\* paragraph lists: any list over a pool of headings and sentences, and any
\* generated paragraph followed by a sentence, a heading and a sentence
SectionInputs ==
    SeqsUpTo({ENZIMS, MOSTRA, LIPIDS, BREU, KAY}, MaxSecParas)
        \cup {<<p, BREU, LIPIDS, KAY>> : p \in GenParagraphs}

InitSections ==
    /\ pc = "sections"
    /\ argv = <<SCRIPT, <<"b", ".", "D", "O", "C", "X">>>>
    /\ outDir = TRUE
    /\ outFile = NoFile
    /\ outBefore = NoFile
    /\ paragraphs \in SectionInputs
    /\ sectioned = <<>>
    /\ cards = <<>>
    /\ result = "running"
    /\ stdout = <<>>
    /\ trace = <<"path.exists", "extract_text", "extract_docx">>

SpecSections == InitSections /\ [][DetectSections]_vars

----------------------------------------------------------------------------
(* The card generator on its own: main() stands before generate_cards with *)
(* one (section, sentence) pair, the sentence alone in its document or     *)
(* under the heading "3.1. Enzims".                                        *)

\* first words: "La", "Lava", "Es", "És", "abcdef", "a"
FirstWords ==
    { <<"L", "a">>, <<"L", "a", "v", "a">>, <<"E", "s">>, <<"É", "s">>,
      <<"a", "b", "c", "d", "e", "f">>, <<"a">> }

\* second words: "denomina", "a", "abcdef", "xabcdef", "abc"
SecondWords ==
    { <<"d", "e", "n", "o", "m", "i", "n", "a">>, <<"a">>,
      <<"a", "b", "c", "d", "e", "f">>, <<"x", "a", "b", "c", "d", "e", "f">>,
      <<"a", "b", "c">> }

\* a later word: "abcdef", "bcdefg", "abc", "xabcdefg", "abcde"
LaterWords ==
    { <<"a", "b", "c", "d", "e", "f">>, <<"b", "c", "d", "e", "f", "g">>,
      <<"a", "b", "c">>, <<"x", "a", "b", "c", "d", "e", "f", "g">>,
      <<"a", "b", "c", "d", "e">> }

\* the sentence of n words w1, w2, then "a" everywhere but at place p, which
\* holds w3, the words separated by sep
Sentence(n, w1, w2, w3, p, sep) ==
    join(sep, [i \in 1..n |-> IF i = 1 THEN w1
                              ELSE IF i = 2 THEN w2
                              ELSE IF i = p THEN w3
                              ELSE <<"a">>])

\* the generated sentences of at most MaxWords words, and the two sentences of
\* the run-level corpus
Sentences ==
    { Sentence(t[1], t[2], t[3], t[4], t[5], t[6]) :
        t \in { u \in (1..MaxWords) \X FirstWords \X SecondWords \X LaterWords
                       \X (3..MaxWords) \X {<<" ">>, <<" ", " ">>} :
                  u[5] <= u[1] \/ u[5] = 3 } }
        \cup {ORGANUL, RIBOSOMES}

InitCards ==
    /\ pc = "cards"
    /\ argv = <<SCRIPT, <<"a", ".", "p", "d", "f">>>>
    /\ outDir = TRUE
    /\ outFile = NoFile
    /\ outBefore = NoFile
    /\ \E s \in Sentences : paragraphs \in {<<s>>, <<ENZIMS, s>>}
    /\ sectioned = detect_sections(paragraphs)
    /\ cards = <<>>
    /\ result = "running"
    /\ stdout = <<>>
    /\ trace = <<"path.exists", "extract_text", "extract_pdf", "detect_sections">>

SpecCards == InitCards /\ [][GenerateCards]_vars

----------------------------------------------------------------------------
(* The sectioner's claims, checked under SpecSections.                     *)

\* p is a heading for detect_sections
IsHeading(p) == SECTION_REGEX_match(p).matched

\* the indices of the non-heading paragraphs of ps
Sentences_of(ps) == {j \in 1..Len(ps) : ~IsHeading(ps[j])}

\* the index in ps of its i-th non-heading paragraph
NthSentence(ps, i) ==
    CHOOSE j \in Sentences_of(ps) :
        Cardinality({h \in Sentences_of(ps) : h <= j}) = i

\* the label of the last heading of ps before index j, "General" when none
Governing(ps, j) ==
    LET hs == {h \in 1..(j - 1) : IsHeading(ps[h])}
    IN  IF hs = {} THEN GENERAL
        ELSE SectionLabel(SECTION_REGEX_match(ps[CHOOSE h \in hs : \A g \in hs : g <= h]))

\* C1: detect_sections returns exactly the non-heading paragraphs, each once
\* and in their original order, never a heading; each is paired with the label
\* of the most recent heading before it, or with "General" when there is none.
C1_SectionsCoverSentences ==
    pc = "cards" =>
        /\ Len(sectioned) = Cardinality(Sentences_of(paragraphs))
        /\ \A i \in 1..Len(sectioned) :
              /\ sectioned[i][2] = paragraphs[NthSentence(paragraphs, i)]
              /\ sectioned[i][1] = Governing(paragraphs, NthSentence(paragraphs, i))
        /\ (Sentences_of(paragraphs) = 1..Len(paragraphs)
              => \A i \in 1..Len(sectioned) : sectioned[i][1] = GENERAL)

\* a sentence before the first heading, a heading, and a sentence after it
C1_Witness ==
    /\ pc = "cards"
    /\ paragraphs = <<BREU, ENZIMS, KAY>>
    /\ sectioned = << <<GENERAL, BREU>>,
                      << <<"3", ".", "1", " ", "E", "n", "z", "i", "m", "s">>, KAY >> >>

\* p[1..e] is dot-separated integers, a period follows, then k whitespace
\* characters, then a label of at least one character
HeadingShape(p, e, k) ==
    /\ 1 <= e
    /\ e + 2 + k <= Len(p)
    /\ DottedNumber(SubSeq(p, 1, e))
    /\ p[e + 1] = "."
    /\ \A i \in (e + 2)..(e + 1 + k) : IsSpace(p[i])

\* p reads as dotted number, period, optional whitespace, non-empty label
ReadsAsHeading(p) ==
    \E e \in 1..Len(p) : \E k \in 0..Len(p) : HeadingShape(p, e, k)

\* the longest dotted-number prefix of a paragraph that reads as a heading
NumberEnd(p) ==
    CHOOSE e \in 1..Len(p) :
        /\ \E k \in 0..Len(p) : HeadingShape(p, e, k)
        /\ \A f \in 1..Len(p) : (\E k \in 0..Len(p) : HeadingShape(p, f, k)) => f <= e

\* where the label starts: after the period and all the whitespace behind it
LabelStart(p) ==
    LET e == NumberEnd(p)
    IN  CHOOSE i \in (e + 2)..Len(p) :
            /\ ~IsSpace(p[i])
            /\ \A j \in (e + 2)..(i - 1) : IsSpace(p[j])

\* the number, one space, and the label to the end of the paragraph
WholeLabel(p) ==
    SubSeq(p, 1, NumberEnd(p)) \o <<" ">> \o SubSeq(p, LabelStart(p), Len(p))

\* the number, one space, and the label to the end of its line
FirstLineLabel(p) ==
    LET i == LabelStart(p)
        lfs == {j \in i..Len(p) : p[j] = "\n"}
        stop == IF lfs = {} THEN Len(p)
                ELSE (CHOOSE j \in lfs : \A h \in lfs : j <= h) - 1
    IN  SubSeq(p, 1, NumberEnd(p)) \o <<" ">> \o SubSeq(p, i, stop)

\* the state after detect_sections on <<p, "Text breu.", "2. Lípids", "k">>
AfterHeadingContext ==
    /\ pc = "cards"
    /\ Len(paragraphs) = 4
    /\ SubSeq(paragraphs, 2, 4) = <<BREU, LIPIDS, KAY>>

\* "2 Lípids"
LIPIDS_LABEL == <<"2", " ", "L", "í", "p", "i", "d", "s">>

\* C2 as stated: a paragraph is a heading exactly when it reads as dotted
\* number, period, optional whitespace, non-empty label; its label is the
\* number, a space and the whole trailing label, and governs the sentences up
\* to the next heading; "3.5 kg de mostra" is a heading and gives no sentence.
C2_Original ==
    AfterHeadingContext =>
        LET p == paragraphs[1]
        IN  IF ReadsAsHeading(p)
            THEN sectioned = << <<WholeLabel(p), BREU>>, <<LIPIDS_LABEL, KAY>> >>
            ELSE sectioned = << <<GENERAL, p>>, <<GENERAL, BREU>>,
                                <<LIPIDS_LABEL, KAY>> >>

\* C2 amended: as C2, with the label taken to the end of the heading's first
\* line (the pattern's last group stops at a line feed).
C2_HeadingFirstLineLabel ==
    AfterHeadingContext =>
        LET p == paragraphs[1]
        IN  /\ IF ReadsAsHeading(p)
               THEN sectioned = << <<FirstLineLabel(p), BREU>>, <<LIPIDS_LABEL, KAY>> >>
               ELSE sectioned = << <<GENERAL, p>>, <<GENERAL, BREU>>,
                                   <<LIPIDS_LABEL, KAY>> >>
            /\ p = ENZIMS =>
                   sectioned[1][1] = <<"3", ".", "1", " ", "E", "n", "z", "i", "m", "s">>
            /\ p = MOSTRA => \A i \in 1..Len(sectioned) : sectioned[i][2] # MOSTRA

\* "3.5 kg de mostra" was taken as the heading "3" with label "5 kg de mostra"
C2_Witness ==
    /\ AfterHeadingContext
    /\ paragraphs[1] = MOSTRA
    /\ sectioned = << << <<"3", " ", "5", " ", "k", "g", " ", "d", "e", " ", "m",
                           "o", "s", "t", "r", "a">>, BREU >>,
                      <<LIPIDS_LABEL, KAY>> >>

----------------------------------------------------------------------------
(* The card generator's claims, checked under SpecCards: generate_cards    *)
(* has run on the one pair <<TheSection, TheSentence>>.                    *)

TheSection == sectioned[1][1]
TheSentence == sectioned[1][2]

AfterGenerate == pc = "write" /\ Len(sectioned) = 1

\* the number of whitespace-delimited words of s: the places where a word starts
WordCount(s) ==
    Cardinality({i \in 1..Len(s) : ~IsSpace(s[i]) /\ (i = 1 \/ IsSpace(s[i - 1]))})

\* the cards of one type, in order
CardsOfType(type) == SelectSeq(cards, LAMBDA c : c.type = type)

\* s starts with one of the seven prefixes
HasStarter(s) ==
    \E st \in { <<"E", "s", " ", "d", "e", "n", "o", "m", "i", "n", "a">>,
                <<"É", "s">>,
                <<"E", "s", " ", "p", "r", "o", "d", "u", "e", "i", "x">>,
                <<"L", "a">>, <<"E", "l">>, <<"E", "l", "s">>, <<"L", "e", "s">> } :
        Len(st) <= Len(s) /\ \A i \in 1..Len(st) : s[i] = st[i]

\* C3: a basic card is emitted exactly when the sentence starts with one of
\* the seven prefixes and has more than 8 words; it is then the card
\* (basic, "Defineix: " + first five words joined by spaces + "...", the
\* sentence, the pair's section, "no").
C3_BasicCardIffDefinition ==
    AfterGenerate =>
        LET s == TheSentence
            basics == CardsOfType(BASIC)
        IN  /\ Len(basics) = (IF HasStarter(s) /\ WordCount(s) > 8 THEN 1 ELSE 0)
            /\ (HasStarter(s) /\ WordCount(s) <= 8) => basics = <<>>
            /\ basics # <<>> =>
                  /\ cards[1] = basics[1]
                  /\ basics[1] =
                        [type |-> BASIC,
                         front |-> DEFINEIX
                                     \o join(<<" ">>, SubSeq(split(s), 1, 5))
                                     \o ELLIPSIS,
                         back |-> s,
                         section |-> TheSection,
                         approved |-> NO]

\* a nine-word sentence starting with "La", its words two spaces apart, gave a
\* basic card whose front joins the first five words by single spaces
C3_Witness ==
    /\ AfterGenerate
    /\ WordCount(TheSentence) = 9
    /\ SubSeq(TheSentence, 1, 4) = <<"L", "a", " ", " ">>
    /\ Len(cards) = 1
    /\ cards[1].type = BASIC
    /\ SubSeq(cards[1].front, 1, 14) =
          DEFINEIX \o <<"L", "a", " ", "a">>

\* the index of the first word of maximal length in a non-empty word list
FirstLongest(words) ==
    CHOOSE i \in 1..Len(words) :
        /\ \A j \in 1..Len(words) : Len(words[j]) <= Len(words[i])
        /\ \A j \in 1..(i - 1) : Len(words[j]) < Len(words[i])

\* the number of places where sub occurs in s
Occurrences(s, sub) == Cardinality({i \in 1..Len(s) : OccursAt(s, sub, i)})

\* s with its first occurrence of word wrapped in the marker
FirstWrapped(s, word) ==
    LET i == CHOOSE k \in 1..Len(s) :
                 /\ OccursAt(s, word, k)
                 /\ \A h \in 1..(k - 1) : ~OccursAt(s, word, h)
    IN  SubSeq(s, 1, i - 1) \o CLOZE_OPEN \o word \o CLOZE_CLOSE
            \o SubSeq(s, i + Len(word), Len(s))

\* front with the first "{{c1::" and the first "}}" after it deleted
Unwrapped(front) ==
    LET i == find(front, CLOZE_OPEN)
        rest == SubSeq(front, i + Len(CLOZE_OPEN), Len(front))
        j == find(rest, CLOZE_CLOSE)
    IN  SubSeq(front, 1, i - 1) \o SubSeq(rest, 1, j - 1)
            \o SubSeq(rest, j + Len(CLOZE_CLOSE), Len(rest))

\* C4: a cloze card is emitted exactly when the sentence has at least 10 words
\* and its longest word (the first among ties) has at least 6 characters; it is
\* then (cloze, front, "", the pair's section, "no") where front is the
\* sentence with the first occurrence of that word wrapped in {{c1::...}}: one
\* marker, and deleting its braces gives the sentence back.
C4_ClozeCardIffLongWord ==
    AfterGenerate =>
        LET s == TheSentence
            words == split(s)
            clozes == CardsOfType(CLOZE)
            fires == /\ WordCount(s) >= 10
                     /\ Len(words[FirstLongest(words)]) >= 6
        IN  /\ Len(clozes) = (IF fires THEN 1 ELSE 0)
            /\ clozes # <<>> =>
                  LET key == words[FirstLongest(words)]
                      card == clozes[1]
                  IN  /\ cards[Len(cards)] = card
                      /\ card = [type |-> CLOZE,
                                 front |-> FirstWrapped(s, key),
                                 back |-> <<>>,
                                 section |-> TheSection,
                                 approved |-> NO]
                      /\ Occurrences(card.front, CLOZE_OPEN \o key \o CLOZE_CLOSE) = 1
                      /\ Unwrapped(card.front) = s

\* ten words, two different words of the maximal length 6: the first was wrapped
C4_Witness ==
    /\ AfterGenerate
    /\ WordCount(TheSentence) = 10
    /\ split(TheSentence)[2] = <<"a", "b", "c", "d", "e", "f">>
    /\ split(TheSentence)[10] = <<"b", "c", "d", "e", "f", "g">>
    /\ Len(cards) = 1
    /\ cards[1].type = CLOZE
    /\ split(cards[1].front)[2] =
          CLOZE_OPEN \o <<"a", "b", "c", "d", "e", "f">> \o CLOZE_CLOSE

\* C5 as stated: the ribosomes sentence is a sentence of 10 or more words for
\* the cloze check and gives a cloze card whose front holds exactly one marker
\* around its longest word, which replaces the first occurrence only, with no
\* other text altered.
C5_Original ==
    (AfterGenerate /\ TheSentence = RIBOSOMES) =>
        /\ WordCount(RIBOSOMES) >= 10
        /\ \E i \in 1..Len(cards) :
              /\ cards[i].type = CLOZE
              /\ \E w \in {split(RIBOSOMES)[k] : k \in 1..Len(split(RIBOSOMES))} :
                    /\ \A v \in {split(RIBOSOMES)[k] : k \in 1..Len(split(RIBOSOMES))} :
                          Len(v) <= Len(w)
                    /\ cards[i].front = FirstWrapped(RIBOSOMES, w)
                    /\ Occurrences(cards[i].front, CLOZE_OPEN \o w \o CLOZE_CLOSE) = 1

\* C5 amended: the ribosomes sentence has 9 words, one short of the cloze
\* check's 10, so it gives no cloze card; its only card is the basic card.
C5_RibosomesNoCloze ==
    (AfterGenerate /\ TheSentence = RIBOSOMES) =>
        /\ WordCount(RIBOSOMES) = 9
        /\ CardsOfType(CLOZE) = <<>>
        /\ Len(cards) = 1
        /\ cards[1].type = BASIC
        /\ cards[1].back = RIBOSOMES

\* generate_cards has run on the ribosomes sentence
C5_Witness ==
    /\ AfterGenerate
    /\ TheSentence = RIBOSOMES
    /\ TheSection = GENERAL
    /\ Len(cards) = 1

\* C10: when a cloze card is emitted, the marker wraps one whole word, the
\* first word of maximal length: the words of the front are the words of the
\* sentence with that one word wrapped.
C10_ClozeWrapsWholeWord ==
    AfterGenerate =>
        \A c \in 1..Len(cards) :
            cards[c].type = CLOZE =>
                LET words == split(TheSentence)
                    k == FirstLongest(words)
                IN  split(cards[c].front) =
                        [i \in 1..Len(words) |->
                            IF i = k THEN CLOZE_OPEN \o words[i] \o CLOZE_CLOSE
                            ELSE words[i]]

\* a cloze card for a sentence where a shorter word of 6 characters is part of
\* the key word, and where the key word starts with a part of another
C10_Witness ==
    /\ AfterGenerate
    /\ Len(cards) >= 1
    /\ cards[Len(cards)].type = CLOZE
    /\ split(TheSentence)[2] = <<"x", "a", "b", "c", "d", "e", "f">>
    /\ \E i \in 3..Len(split(TheSentence)) :
          split(TheSentence)[i] = <<"a", "b", "c", "d", "e", "f">>
    /\ split(cards[Len(cards)].front)[2] =
          CLOZE_OPEN \o <<"x", "a", "b", "c", "d", "e", "f">> \o CLOZE_CLOSE

----------------------------------------------------------------------------
(* The claims about whole runs, checked under Spec.                        *)

\* a run has ended and no other has started
RunEnded == pc = "idle" /\ result # "none"

\* "type,front,back,section,approved\r\n"
HEADER_LINE ==
    <<"t", "y", "p", "e", ",", "f", "r", "o", "n", "t", ",", "b", "a", "c",
      "k", ",", "s", "e", "c", "t", "i", "o", "n", ",", "a", "p", "p", "r",
      "o", "v", "e", "d", "\r", "\n">>

\* C6: once a run has completed successfully, the output file reads back as
\* the header row type,front,back,section,approved followed by one row per
\* card of that run, in generation order, with the cards' field values;
\* nothing an earlier run wrote remains.
C6_FileHoldsThisRunsCards ==
    (RunEnded /\ result = "exit 0") =>
        /\ outFile # NoFile
        /\ Utf8Valid(outFile)
        /\ SubSeq(outFile, 1, Len(HEADER_LINE)) = HEADER_LINE
        /\ ReadCsv(Utf8Decode(outFile)) =
              << << <<"t", "y", "p", "e">>, <<"f", "r", "o", "n", "t">>,
                    <<"b", "a", "c", "k">>, <<"s", "e", "c", "t", "i", "o", "n">>,
                    <<"a", "p", "p", "r", "o", "v", "e", "d">> >> >>
              \o [i \in 1..Len(cards) |->
                     <<cards[i].type, cards[i].front, cards[i].back,
                       cards[i].section, cards[i].approved>>]

\* a successful run that wrote two cards, one with commas and quotes in its
\* fields, over a different file an earlier run had left
C6_Witness ==
    /\ RunEnded
    /\ result = "exit 0"
    /\ outBefore # NoFile
    /\ outBefore # outFile
    /\ Len(outBefore) > Len(outFile)
    /\ paragraphs = <<ORGANUL>>
    /\ Len(cards) = 2
    /\ cards[2].front # ORGANUL

\* the current run was given one argument, an existing path whose suffix,
\* lower-cased, is neither .pdf nor .docx
UnsupportedRun ==
    /\ result # "none"
    /\ Len(argv) = 2
    /\ argv[2] \in ExistingPaths
    /\ lower(suffix(argv[2])) \notin {<<".", "p", "d", "f">>, <<".", "d", "o", "c", "x">>}

\* C7: a run on an existing path with an unsupported extension ends with
\* ValueError, reaches neither card generation nor write_csv, and leaves the
\* output file as it was before the run.
C7_UnsupportedLeavesOutput ==
    UnsupportedRun =>
        /\ pc \in {"argc", "exists", "extract", "idle"}
        /\ \A i \in 1..Len(trace) :
              trace[i] \notin {"detect_sections", "generate_cards", "write_csv"}
        /\ cards = <<>>
        /\ outFile = outBefore
        /\ pc = "idle" => result = "ValueError"

\* a run on c.txt ended with ValueError and the file of an earlier run is intact
C7_Witness ==
    /\ RunEnded
    /\ argv = <<SCRIPT, <<"c", ".", "t", "x", "t">>>>
    /\ result = "ValueError"
    /\ outBefore # NoFile
    /\ outFile = outBefore

\* the run ended before the writer stage
FailedBeforeWriter ==
    /\ RunEnded
    /\ result \in {"exit 1", "FileNotFoundError", "ValueError", "ExtractionError"}

\* the output file is other than at the start of the run only once write_csv
\* was called, after generate_cards returned the whole card list
WrittenAfterGeneration ==
    outFile # outBefore =>
        /\ Len(trace) >= 2
        /\ trace[Len(trace)] = "write_csv"
        /\ trace[Len(trace) - 1] = "generate_cards"
        /\ cards = generate_cards(detect_sections(paragraphs))

\* C8 as stated: the output file is written only after the whole card list has
\* been generated, and a run that fails before the writer stage leaves no
\* output file.
C8_Original ==
    /\ WrittenAfterGeneration
    /\ FailedBeforeWriter => outFile = NoFile

\* C8 amended: the output file is written only after the whole card list has
\* been generated, and a run that fails before the writer stage leaves the
\* output file as it was before the run: none if there was none, and the file
\* of an earlier run unchanged.
C8_NoWriteBeforeGeneration ==
    /\ WrittenAfterGeneration
    /\ FailedBeforeWriter => outFile = outBefore

\* a run failed on a document it could not read, after an earlier run had
\* written the file
C8_Witness ==
    /\ FailedBeforeWriter
    /\ result = "ExtractionError"
    /\ outBefore # NoFile
    /\ outFile = outBefore

\* the calls of a complete run, in order, "X" standing for pdf or docx
CallOrder(kind) ==
    <<"path.exists", "extract_text", "extract_" \o kind, "detect_sections",
      "generate_cards", "write_csv">>

\* C9: the checks come in the order argument count, path existence, extension,
\* extraction.  A run with a wrong argument count prints the usage message and
\* exits with status 1 without examining any path; a run on a path that does
\* not exist fails with FileNotFoundError before the extension is examined or
\* any extraction attempted, whatever the extension.
C9_ChecksInOrder ==
    result # "none" =>
        /\ \E kind \in {"pdf", "docx"} :
              trace = SubSeq(CallOrder(kind), 1, Len(trace))
        /\ Len(argv) # 2 =>
              /\ trace = <<>>
              /\ pc \in {"argc", "idle"}
              /\ pc = "idle" => result = "exit 1" /\ stdout = <<"usage">>
        /\ (Len(argv) = 2 /\ argv[2] \in MissingPaths) =>
              /\ pc \in {"argc", "exists", "idle"}
              /\ pc = "idle" => result = "FileNotFoundError" /\ trace = <<"path.exists">>

\* a run on the missing path m.txt ended with FileNotFoundError
C9_Witness ==
    /\ RunEnded
    /\ argv = <<SCRIPT, <<"m", ".", "t", "x", "t">>>>
    /\ result = "FileNotFoundError"
    /\ trace = <<"path.exists">>

====
